---- MODULE Spec2Model ----
(***************************************************************************)
(* Model of quiz-utils.py: Question, MultiChoiceQuestion and run_quiz.     *)
(*                                                                         *)
(* A Python str is a sequence of one-character strings, so that            *)
(* str.lower() is computed character by character.  The terminal is the    *)
(* pair (output, reads): the lines written so far and the number of input  *)
(* lines consumed.  One action runs the code from one suspension point     *)
(* (a call, an input(), a return of ask) to the next.                      *)
(***************************************************************************)
EXTENDS Integers, Sequences, FiniteSets

VARIABLES
    args,         \* arguments of the constructor call being made
    questions,    \* the constructed questions / the list handed to run_quiz
    score_per_question,
    first_question_num,
    pc,           \* position of the program
    i,            \* loop index of run_quiz (0-based)
    score,        \* running score of run_quiz
    option_list,  \* MultiChoiceQuestion.ask: the letter -> option dictionary
    valid_input,  \* MultiChoiceQuestion.ask: the loop flag
    user_answer,  \* the last line read by input()
    ret,          \* the value returned by the last ask call
    asked,        \* the values returned by the ask calls of this run, in order
    attempts,     \* invalid lines read by the ask call in progress
    reads,        \* lines consumed from standard input
    output,       \* lines written to standard output
    raised,       \* the exception that ended the call, if any
    returned      \* the value returned by run_quiz

vars == <<args, questions, score_per_question, first_question_num, pc, i, score,
          option_list, valid_input, user_answer, ret, asked, attempts, reads,
          output, raised, returned>>

---------------------------------------------------------------------------
(* Bounds of the model *)

MaxAnswers == 2      \* longest answers list of an asked question
MaxWrong == 1        \* longest wrong_answers list of an asked question
MaxQuestions == 2    \* longest list of several questions handed to run_quiz
MaxRetries == 2      \* invalid lines fed to one MultiChoiceQuestion.ask
MaxCtorLen == 27     \* longest list handed to a constructor

(* Program constants *)

MaxOptions == 26
DefaultFirstQuestionNum == 1
DefaultScorePerQuestion == 1

---------------------------------------------------------------------------
(* Strings *)

ascii_lowercase ==
    <<"a","b","c","d","e","f","g","h","i","j","k","l","m",
      "n","o","p","q","r","s","t","u","v","w","x","y","z">>

ascii_uppercase ==
    <<"A","B","C","D","E","F","G","H","I","J","K","L","M",
      "N","O","P","Q","R","S","T","U","V","W","X","Y","Z">>

Range(s) == {s[k] : k \in 1..Len(s)}

Min(a, b) == IF a < b THEN a ELSE b

LowerChar(c) ==
    IF \E k \in 1..26 : ascii_uppercase[k] = c
    THEN ascii_lowercase[CHOOSE k \in 1..26 : ascii_uppercase[k] = c]
    ELSE c

\* str.lower()
Lower(s) == [k \in 1..Len(s) |-> LowerChar(s[k])]

\* [answer.lower() for answer in answers]
LowerAll(list) == [k \in 1..Len(list) |-> Lower(list[k])]

---------------------------------------------------------------------------
(* Values the model draws its inputs from *)

NoValue == -1

\* texts of answers and options: a single letter, and two texts that differ
\* only by letter case
OptTexts == { <<"b">>, <<"a","b">>, <<"A","b">> }

\* lines typed by the user
Inputs == { <<>>, <<"a">>, <<"A">>, <<"b">>, <<"B">>, <<"c">>,
            <<"a","b">>, <<"A","B">>, <<" ","b">> }

ScoreValues == {DefaultScorePerQuestion, 3}
FirstNumValues == {DefaultFirstQuestionNum, 7}

SeqsUpTo(S, n) == UNION {[1..m -> S] : m \in 0..n}

Prompt == <<"Q">>

---------------------------------------------------------------------------
(* Question.__init__ and MultiChoiceQuestion.__init__ *)

NewQuestion(question, answers) ==
    [kind |-> "Question", question |-> question, answers |-> answers,
     wrong_answers |-> <<>>]

TooManyOff(answers, wrong_answers) ==
    Len(answers) + Len(wrong_answers) >= MaxOptions

\* len(answers) + len(wrong_answers) > 26
TooMany(answers, wrong_answers) ==
    Len(answers) + Len(wrong_answers) > MaxOptions

NewMultiChoiceQuestion(question, answers, wrong_answers) ==
    [kind |-> "MultiChoiceQuestion", question |-> question, answers |-> answers,
     wrong_answers |-> wrong_answers]

---------------------------------------------------------------------------
(* Output lines *)

OutLine(l, n, items) == [line |-> l, num |-> n, items |-> items]

Separator == OutLine("-----------", 0, <<>>)
QuestionHeader(n) == OutLine("Question", n, <<>>)
QuestionText(items) == OutLine("question text", 0, items)
InputPrompt == OutLine("Your answer: ", 0, <<>>)
Correct == OutLine("Correct!", 0, <<>>)
Incorrect == OutLine("Incorrect!", 0, <<>>)
Reprompt == OutLine("Please enter one of the options!", 0, <<>>)
StillRunning == OutLine("How is this method still running?", 0, <<>>)
ScoreLine(n) == OutLine("Your score", n, <<>>)

---------------------------------------------------------------------------
(* MultiChoiceQuestion.ask: shuffle and letter assignment *)

Count(s, x) == Cardinality({k \in 1..Len(s) : s[k] = x})

ShufflesLoose(s) == {t \in [1..Len(s) -> Range(s)] : Range(t) = Range(s)}

\* random.shuffle: any permutation of the list
Shuffles(s) ==
    {t \in [1..Len(s) -> Range(s)] : \A x \in Range(s) : Count(t, x) = Count(s, x)}

\* zip(list(ascii_lowercase), all_options) inserted into a dictionary, kept
\* in insertion order; a key is a one-letter str
Zip(all_options) ==
    [k \in 1..Min(Len(ascii_lowercase), Len(all_options)) |->
        [key |-> <<ascii_lowercase[k]>>, value |-> all_options[k]]]

Keys(d) == {d[k].key : k \in 1..Len(d)}
Values(d) == [k \in 1..Len(d) |-> d[k].value]
Lookup(d, key) == d[CHOOSE k \in 1..Len(d) : d[k].key = key].value

---------------------------------------------------------------------------
(* Answer checks of the two ask methods *)

QuestionResultExact(q, line) ==
    IF Lower(line) \in Range(q.answers) THEN 1 ELSE 0

\* Question.ask: user_answer.lower() in [answer.lower() for answer in self.answers]
QuestionResult(q, line) ==
    IF Lower(line) \in Range(LowerAll(q.answers)) THEN 1 ELSE 0

\* user_answer.lower() in option_list.keys()
IsKey(d, line) == Lower(line) \in Keys(d)

IsOptionTextExact(d, line) == Lower(line) \in Range(Values(d))

\* user_answer.lower() in [option.lower() for option in option_list.values()]
IsOptionText(d, line) == Lower(line) \in Range(LowerAll(Values(d)))

LetterResultLower(q, d, line) ==
    IF Lower(Lookup(d, Lower(line))) \in Range(LowerAll(q.answers)) THEN 1 ELSE 0

\* option_list[user_answer.lower()] in self.answers
LetterResult(q, d, line) ==
    IF Lookup(d, Lower(line)) \in Range(q.answers) THEN 1 ELSE 0

TextResultExact(q, line) ==
    IF line \in Range(q.answers) THEN 1 ELSE 0

\* user_answer.lower() in [answer.lower() for answer in self.answers]
TextResult(q, line) ==
    IF Lower(line) \in Range(LowerAll(q.answers)) THEN 1 ELSE 0

Invalid == [valid |-> FALSE, ret |-> NoValue]

UpperChar(c) ==
    IF \E k \in 1..26 : ascii_lowercase[k] = c
    THEN ascii_uppercase[CHOOSE k \in 1..26 : ascii_lowercase[k] = c]
    ELSE c

Upper(s) == [k \in 1..Len(s) |-> UpperChar(s[k])]

ResolveUpper(q, d, line) ==
    IF Upper(line) \in Keys(d)
    THEN [valid |-> TRUE, ret |-> LetterResult(q, d, line)]
    ELSE IF Upper(line) \in Range(LowerAll(Values(d)))
    THEN [valid |-> TRUE, ret |-> TextResult(q, line)]
    ELSE Invalid

ResolveNoRetry(q, d, line) ==
    IF IsKey(d, line) THEN [valid |-> TRUE, ret |-> LetterResult(q, d, line)]
    ELSE IF IsOptionText(d, line) THEN [valid |-> TRUE, ret |-> TextResult(q, line)]
    ELSE [valid |-> TRUE, ret |-> 0]

ResolveTextFirst(q, d, line) ==
    IF IsOptionText(d, line) THEN [valid |-> TRUE, ret |-> TextResult(q, line)]
    ELSE IF IsKey(d, line) THEN [valid |-> TRUE, ret |-> LetterResult(q, d, line)]
    ELSE Invalid

\* the if / elif / else of the validation loop: the letter keys are checked
\* first, then the option texts
Resolve(q, d, line) ==
    IF IsKey(d, line) THEN [valid |-> TRUE, ret |-> LetterResult(q, d, line)]
    ELSE IF IsOptionText(d, line) THEN [valid |-> TRUE, ret |-> TextResult(q, line)]
    ELSE Invalid

FeedbackInverted(r) == IF r = 0 THEN Correct ELSE Incorrect

\* print("Correct!") before return 1, print("Incorrect!") before return 0
Feedback(r) == IF r = 1 THEN Correct ELSE Incorrect

---------------------------------------------------------------------------
(* Initial states *)

NoArgs == [cls |-> "none", answers |-> <<>>, wrong_answers |-> <<>>]

Copies(n) == [k \in 1..n |-> <<"b">>]

CtorCalls ==
    {[cls |-> "Question", answers |-> Copies(n), wrong_answers |-> <<>>] :
        n \in 0..MaxCtorLen}
    \cup
    {[cls |-> "MultiChoiceQuestion", answers |-> Copies(n),
      wrong_answers |-> Copies(m)] : n \in 0..MaxCtorLen, m \in 0..MaxCtorLen}

\* every question run_quiz is given was built by a constructor
AskedQuestions ==
    {NewQuestion(Prompt, a) : a \in SeqsUpTo(OptTexts, MaxAnswers)}
    \cup
    {NewMultiChoiceQuestion(Prompt, a, w) :
        a \in SeqsUpTo(OptTexts, MaxAnswers), w \in SeqsUpTo(OptTexts, MaxWrong)}

QuizPool ==
    { NewQuestion(Prompt, << <<"a","b">> >>),
      NewMultiChoiceQuestion(Prompt, << <<"b">> >>, << <<"A","b">> >>),
      NewMultiChoiceQuestion(Prompt, <<>>, <<>>) }

\* quizzes of one question, and quizzes of several
SingleQuizzes == SeqsUpTo(AskedQuestions, 1)
PoolQuizzes == SeqsUpTo(QuizPool, MaxQuestions)

Idle ==
    /\ i = NoValue
    /\ score = NoValue
    /\ option_list = <<>>
    /\ valid_input = FALSE
    /\ user_answer = <<>>
    /\ ret = NoValue
    /\ asked = <<>>
    /\ attempts = 0
    /\ reads = 0
    /\ output = <<>>
    /\ raised = "none"
    /\ returned = NoValue

\* a call of run_quiz
Init ==
    /\ args = NoArgs
    /\ \/ /\ questions \in SingleQuizzes
          /\ score_per_question = DefaultScorePerQuestion
          /\ first_question_num = DefaultFirstQuestionNum
       \/ /\ questions \in PoolQuizzes
          /\ score_per_question \in ScoreValues
          /\ first_question_num \in FirstNumValues
    /\ pc = "run_quiz"
    /\ Idle

\* a call of a constructor
CtorInit ==
    /\ args \in CtorCalls
    /\ questions = <<>>
    /\ score_per_question = DefaultScorePerQuestion
    /\ first_question_num = DefaultFirstQuestionNum
    /\ pc = "new"
    /\ Idle

---------------------------------------------------------------------------
(* Constructors *)

QuestionInit ==
    /\ pc = "new"
    /\ args.cls = "Question"
    /\ questions' = Append(questions, NewQuestion(Prompt, args.answers))
    /\ pc' = "constructed"
    /\ UNCHANGED <<args, score_per_question, first_question_num, i, score,
                   option_list, valid_input, user_answer, ret, asked, attempts,
                   reads, output, raised, returned>>

MultiChoiceQuestionInit ==
    /\ pc = "new"
    /\ args.cls = "MultiChoiceQuestion"
    /\ IF TooMany(args.answers, args.wrong_answers)
       THEN /\ raised' = "ValueError"
            /\ pc' = "raised"
            /\ UNCHANGED questions
       ELSE /\ questions' = Append(questions,
                NewMultiChoiceQuestion(Prompt, args.answers, args.wrong_answers))
            /\ pc' = "constructed"
            /\ UNCHANGED raised
    /\ UNCHANGED <<args, score_per_question, first_question_num, i, score,
                   option_list, valid_input, user_answer, ret, asked, attempts,
                   reads, output, returned>>

---------------------------------------------------------------------------
(* run_quiz *)

EmptyCheckOff(qs) == Len(qs) < 0

\* len(questions) == 0
NoQuestions(qs) == Len(qs) = 0

\* the emptiness check and score = 0
RunQuiz ==
    /\ pc = "run_quiz"
    /\ IF NoQuestions(questions)
       THEN /\ raised' = "ValueError"
            /\ pc' = "raised"
            /\ UNCHANGED score
       ELSE /\ score' = 0
            /\ pc' = "for"
            /\ UNCHANGED raised
    /\ UNCHANGED <<args, questions, score_per_question, first_question_num, i,
                   option_list, valid_input, user_answer, ret, asked, attempts,
                   reads, output, returned>>

HeaderFromOne(n) == <<Separator, QuestionHeader(n + 1), Separator>>

\* the three prints before a question's ask
Header(n) == <<Separator, QuestionHeader(n + first_question_num), Separator>>

\* Question.ask up to its input()
QuestionAskBegin(q, out) ==
    /\ output' = out \o <<QuestionText(<<>>), InputPrompt>>
    /\ UNCHANGED questions
    /\ option_list' = <<>>
    /\ valid_input' = FALSE
    /\ attempts' = 0
    /\ pc' = "Question.ask"

ShuffledInPlace(q, all_options) ==
    [q EXCEPT !.answers = SubSeq(all_options, 1, Len(q.answers)),
              !.wrong_answers = SubSeq(all_options, Len(q.answers) + 1,
                                       Len(all_options))]

\* the question after shuffle(all_options): self.answers + self.wrong_answers
\* is a new list, so the shuffle leaves the question's own lists alone
AfterShuffle(q, all_options) == q

\* MultiChoiceQuestion.ask up to its first input()
MultiChoiceAskBegin(q, out) ==
    \E all_options \in Shuffles(q.answers \o q.wrong_answers) :
        /\ questions' = [questions EXCEPT ![i' + 1] = AfterShuffle(q, all_options)]
        /\ option_list' = Zip(all_options)
        /\ output' = out \o <<QuestionText(Zip(all_options)), InputPrompt>>
        /\ valid_input' = FALSE
        /\ attempts' = 0
        /\ pc' = "MultiChoiceQuestion.ask"

NextIndexSkip(j) == IF j = NoValue THEN 0 ELSE j + 2

\* for i in range(0, len(questions)): the index of the next turn
NextIndex(j) == IF j = NoValue THEN 0 ELSE j + 1

\* one turn of the for loop up to the input() of the question's ask, or the
\* end of the loop and the final score
ForNext ==
    /\ pc = "for"
    /\ LET n == NextIndex(i) IN
       IF n < Len(questions)
       THEN /\ i' = n
            /\ IF questions[n + 1].kind = "Question"
               THEN QuestionAskBegin(questions[n + 1], output \o Header(n))
               ELSE MultiChoiceAskBegin(questions[n + 1], output \o Header(n))
            /\ UNCHANGED returned
       ELSE /\ output' = output \o <<Separator, ScoreLine(score), Separator>>
            /\ returned' = score
            /\ pc' = "done"
            /\ UNCHANGED <<i, questions, option_list, valid_input, attempts>>
    /\ UNCHANGED <<args, score_per_question, first_question_num, score,
                   user_answer, ret, asked, reads, raised>>

ScaledSum(s, r) == s + score_per_question * r

\* score += questions[i].ask()
Sum(s, r) == s + r

AddScore ==
    /\ pc = "ask_returned"
    /\ score' = Sum(score, ret)
    /\ asked' = Append(asked, ret)
    /\ pc' = "for"
    /\ UNCHANGED <<args, questions, score_per_question, first_question_num, i,
                   option_list, valid_input, user_answer, ret, attempts, reads,
                   output, raised, returned>>

---------------------------------------------------------------------------
(* The ask methods from an input() on *)

QuestionAsk(line) ==
    /\ pc = "Question.ask"
    /\ reads' = reads + 1
    /\ user_answer' = line
    /\ ret' = QuestionResult(questions[i + 1], line)
    /\ output' = Append(output, Feedback(QuestionResult(questions[i + 1], line)))
    /\ pc' = "ask_returned"
    /\ UNCHANGED <<args, questions, score_per_question, first_question_num, i,
                   score, option_list, valid_input, asked, attempts, raised,
                   returned>>

LoopFallThrough == "MultiChoiceQuestion.ask"

\* return 1 / return 0 in the branches of the loop: the call ends there
LoopExit == "ask_returned"

\* one evaluation of the while condition: with valid_input false, one turn
\* of the loop (an input() and its branches); with valid_input true, the
\* code after the loop
MultiChoiceQuestionAsk(line) ==
    /\ pc = "MultiChoiceQuestion.ask"
    /\ IF valid_input
       THEN /\ output' = Append(output, StillRunning)
            /\ ret' = 0
            /\ pc' = "ask_returned"
            /\ UNCHANGED <<reads, user_answer, valid_input, attempts>>
       ELSE LET r == Resolve(questions[i + 1], option_list, line) IN
            /\ r.valid \/ attempts < MaxRetries
            /\ reads' = reads + 1
            /\ user_answer' = line
            /\ IF r.valid
               THEN /\ valid_input' = TRUE
                    /\ ret' = r.ret
                    /\ output' = Append(output, Feedback(r.ret))
                    /\ pc' = LoopExit
                    /\ UNCHANGED attempts
               ELSE /\ output' = output \o <<Reprompt, InputPrompt>>
                    /\ attempts' = attempts + 1
                    /\ UNCHANGED <<valid_input, ret, pc>>
    /\ UNCHANGED <<args, questions, score_per_question, first_question_num, i,
                   score, option_list, asked, raised, returned>>

---------------------------------------------------------------------------
(* Specifications *)

Next ==
    \/ RunQuiz
    \/ ForNext
    \/ AddScore
    \/ \E line \in Inputs : QuestionAsk(line)
    \/ \E line \in Inputs : MultiChoiceQuestionAsk(line)

Spec == Init /\ [][Next]_vars

\* the loop of MultiChoiceQuestion.ask has no attempt limit: a further
\* invalid line after MaxRetries of them is re-prompted like the others, and
\* the model stops recording these in output, reads and attempts
MultiChoiceQuestionAskMore(line) ==
    /\ pc = "MultiChoiceQuestion.ask"
    /\ ~valid_input
    /\ attempts = MaxRetries
    /\ ~Resolve(questions[i + 1], option_list, line).valid
    /\ user_answer' = line
    /\ UNCHANGED <<args, questions, score_per_question, first_question_num, pc,
                   i, score, option_list, valid_input, ret, asked, attempts,
                   reads, output, raised, returned>>

LiveNext ==
    \/ Next
    \/ \E line \in Inputs : MultiChoiceQuestionAskMore(line)

\* the input stream supplies a line that ends the ask in progress
ValidLine ==
    \E line \in Inputs : MultiChoiceQuestionAsk(line) /\ pc' = "ask_returned"

\* the quizzes of the liveness check: those of several questions, and one
\* multiple-choice question of at most one answer
LiveQuizzes ==
    PoolQuizzes
    \cup
    {<<NewMultiChoiceQuestion(Prompt, a, w)>> :
        a \in SeqsUpTo(OptTexts, 1), w \in SeqsUpTo(OptTexts, MaxWrong)}

LiveInit ==
    /\ args = NoArgs
    /\ questions \in LiveQuizzes
    /\ score_per_question = DefaultScorePerQuestion
    /\ first_question_num = DefaultFirstQuestionNum
    /\ pc = "run_quiz"
    /\ Idle

\* runs whose input stream eventually supplies a valid token to every
\* multiple-choice ask that has one
LiveSpec == LiveInit /\ [][LiveNext]_vars /\ WF_vars(ValidLine)

CtorNext ==
    \/ QuestionInit
    \/ MultiChoiceQuestionInit

CtorSpec == CtorInit /\ [][CtorNext]_vars

---------------------------------------------------------------------------
(* Vocabulary of the properties *)

\* two characters that are the same, or the two cases of one letter
SameLetter(c, d) ==
    \/ c = d
    \/ \E n \in 1..26 : {c, d} = {ascii_lowercase[n], ascii_uppercase[n]}

\* equality of two strings up to letter case, nothing trimmed
EqualIgnoreCase(s, t) ==
    /\ Len(s) = Len(t)
    /\ \A k \in 1..Len(s) : SameLetter(s[k], t[k])

\* text is a member of list up to letter case
MemberIgnoreCase(text, list) ==
    \E k \in 1..Len(list) : EqualIgnoreCase(list[k], text)

\* the ask call of a question of this kind has just returned
Returned(kind) ==
    /\ pc = "ask_returned"
    /\ questions[i + 1].kind = kind

\* every question up to the current one is a free-text question
OnlyFreeText == \A k \in 1..(i + 1) : questions[k].kind = "Question"

---------------------------------------------------------------------------
(* C1: Question.ask on a non-empty answers list reads exactly one line and  *)
(* returns 1 iff the line equals some answer up to letter case (nothing is *)
(* trimmed), and 0 otherwise; there is no retry.                           *)
C1_QuestionAsk ==
    /\ (pc = "Question.ask" /\ OnlyFreeText) => reads = i
    /\ (Returned("Question") /\ Len(questions[i + 1].answers) > 0) =>
          /\ ret = (IF MemberIgnoreCase(user_answer, questions[i + 1].answers)
                    THEN 1 ELSE 0)
          /\ output[Len(output)] = (IF ret = 1 THEN Correct ELSE Incorrect)
          /\ OnlyFreeText => reads = i + 1

\* a line that differs from every answer, by letter case only from one of
\* them, was scored 1 after a single read
C1_Witness ==
    /\ Returned("Question")
    /\ Len(questions[i + 1].answers) = 2
    /\ user_answer \notin Range(questions[i + 1].answers)
    /\ ret = 1
    /\ reads = 1

(* C2: MultiChoiceQuestion construction raises iff the two lists together   *)
(* hold more than 26 entries, and otherwise yields the question.           *)
C2_CtorLimit ==
    (pc # "new" /\ args.cls = "MultiChoiceQuestion") =>
        LET total == Len(args.answers) + Len(args.wrong_answers) IN
        /\ (raised = "ValueError") <=> (total > 26)
        /\ (raised = "ValueError") => (pc = "raised" /\ questions = <<>>)
        /\ (raised # "ValueError") =>
              /\ pc = "constructed"
              /\ Len(questions) = 1
              /\ questions[1].kind = "MultiChoiceQuestion"
              /\ questions[1].answers = args.answers
              /\ questions[1].wrong_answers = args.wrong_answers

\* a question of exactly 26 options was constructed
C2_Witness ==
    /\ pc = "constructed"
    /\ args.cls = "MultiChoiceQuestion"
    /\ Len(args.answers) + Len(args.wrong_answers) = 26
    /\ Len(questions) = 1

(* C3: run_quiz on an empty list raises and has written and read nothing.   *)
C3_EmptyQuiz ==
    (Len(questions) = 0 /\ pc # "run_quiz") =>
        /\ pc = "raised"
        /\ raised = "ValueError"
        /\ output = <<>>
        /\ reads = 0
        /\ returned = NoValue

C3_Witness ==
    /\ questions = <<>>
    /\ pc = "raised"
    /\ raised = "ValueError"

(* C4: the option dictionary of MultiChoiceQuestion.ask has the first n     *)
(* lowercase letters as keys, in ascending order from 'a' with no gap or   *)
(* repeat, n being the number of answers plus wrong answers; its values    *)
(* are the combined list as a multiset; the options are displayed in that  *)
(* order.                                                                  *)
InMultiChoiceAsk ==
    \/ pc = "MultiChoiceQuestion.ask"
    \/ Returned("MultiChoiceQuestion")

C4_OptionAssignment ==
    InMultiChoiceAsk =>
        LET q == questions[i + 1]
            combined == q.answers \o q.wrong_answers
            n == Len(q.answers) + Len(q.wrong_answers)
            fed == IF pc = "ask_returned" THEN 1 ELSE 0
            shown == output[Len(output) - 1 - 2 * attempts - fed]
        IN  /\ Len(option_list) = n
            /\ \A k \in 1..n : option_list[k].key = <<ascii_lowercase[k]>>
            /\ \A x \in OptTexts : Count(Values(option_list), x) = Count(combined, x)
            /\ Range(Values(option_list)) \subseteq OptTexts
            /\ shown.line = "question text"
            /\ shown.items = option_list

\* three options, one text twice, in another order than the lists give
C4_Witness ==
    /\ pc = "MultiChoiceQuestion.ask"
    /\ Len(option_list) = 3
    /\ option_list[1].value = option_list[3].value
    /\ option_list[2].value # option_list[1].value
    /\ Values(option_list) # questions[i + 1].answers \o questions[i + 1].wrong_answers
    /\ attempts = 1

---------------------------------------------------------------------------
(* Selections of MultiChoiceQuestion.ask, stated on the dictionary *)

\* the positions whose letter key the line is, in either case
KeyOf(line) ==
    {k \in 1..Len(option_list) :
        Len(line) = 1 /\ SameLetter(line[1], ascii_lowercase[k])}

\* the positions whose option text the line is, up to letter case
TextOf(line) ==
    {k \in 1..Len(option_list) : EqualIgnoreCase(option_list[k].value, line)}

\* the option or options the line selects, a letter key taking priority
Selected(line) == IF KeyOf(line) # {} THEN KeyOf(line) ELSE TextOf(line)

OptionAt(k) == option_list[k].value

CorrectAnswers == questions[i + 1].answers

(* C5: once a selection is resolved, by letter key or by full text, the     *)
(* score is 1 if the selected option's text is a member of the answers up  *)
(* to letter case, and 0 otherwise.                                        *)
C5_ScoreIgnoresCase ==
    Returned("MultiChoiceQuestion") =>
        \A k \in Selected(user_answer) :
            ret = (IF MemberIgnoreCase(OptionAt(k), CorrectAnswers) THEN 1 ELSE 0)

(* C6 as written: the letter key of a correct option, or the text of a      *)
(* correct option in any letter case, scores 1.                            *)
C6_Original ==
    ( /\ Returned("MultiChoiceQuestion")
      /\ \/ \E k \in KeyOf(user_answer) : OptionAt(k) \in Range(CorrectAnswers)
         \/ \E k \in TextOf(user_answer) : OptionAt(k) \in Range(CorrectAnswers) )
    => ret = 1

(* C6 as amended: the letter key of a correct option, or a line that is no  *)
(* letter key of the assignment and is the text of a correct option in any *)
(* letter case, scores 1 whatever letter the option got.                   *)
C6_CorrectInput ==
    ( /\ Returned("MultiChoiceQuestion")
      /\ \/ \E k \in KeyOf(user_answer) : OptionAt(k) \in Range(CorrectAnswers)
         \/ /\ KeyOf(user_answer) = {}
            /\ \E k \in TextOf(user_answer) : OptionAt(k) \in Range(CorrectAnswers) )
    => ret = 1

\* the text of the correct option, in another letter case, scored 1 while the
\* option had the letter b
C6_Witness ==
    /\ Returned("MultiChoiceQuestion")
    /\ KeyOf(user_answer) = {}
    /\ TextOf(user_answer) = {2}
    /\ OptionAt(2) \in Range(CorrectAnswers)
    /\ OptionAt(2) # user_answer
    /\ OptionAt(1) \notin Range(CorrectAnswers)
    /\ ret = 1

(* C7 as written: a letter key of an option that is not a correct one, or   *)
(* the literal text of a presented option not in the answers, scores 0.    *)
C7_Original ==
    ( /\ Returned("MultiChoiceQuestion")
      /\ \/ \E k \in KeyOf(user_answer) : OptionAt(k) \notin Range(CorrectAnswers)
         \/ \E k \in 1..Len(option_list) :
               /\ OptionAt(k) = user_answer
               /\ OptionAt(k) \notin Range(CorrectAnswers) )
    => ret = 0

(* C7 as amended: a letter key of an option that is not in the answers, or  *)
(* a line that is no letter key of the assignment and is, in any letter    *)
(* case, the text of a presented option that is not a member of the        *)
(* answers up to letter case, scores 0.                                    *)
C7_WrongInput ==
    ( /\ Returned("MultiChoiceQuestion")
      /\ \/ \E k \in KeyOf(user_answer) : OptionAt(k) \notin Range(CorrectAnswers)
         \/ /\ KeyOf(user_answer) = {}
            /\ \E k \in TextOf(user_answer) :
                  ~MemberIgnoreCase(OptionAt(k), CorrectAnswers) )
    => ret = 0

\* the letter of a wrong option that differs from an answer by letter case
\* only scored 0
C7_Witness ==
    /\ Returned("MultiChoiceQuestion")
    /\ KeyOf(user_answer) = {2}
    /\ OptionAt(2) \notin Range(CorrectAnswers)
    /\ MemberIgnoreCase(OptionAt(2), CorrectAnswers)
    /\ ret = 0

\* the text of a wrong option, typed in another letter case, scored 0
C7_WitnessText ==
    /\ Returned("MultiChoiceQuestion")
    /\ KeyOf(user_answer) = {}
    /\ TextOf(user_answer) # {}
    /\ user_answer \notin Range(Values(option_list))
    /\ Len(CorrectAnswers) > 0
    /\ ret = 0

(* C8: in MultiChoiceQuestion.ask a line that is neither a letter key nor   *)
(* an option text up to letter case is answered by exactly one re-prompt   *)
(* and the next input prompt, with no feedback and no score; a valid line  *)
(* ends the call with one feedback line, and nothing is read between the   *)
(* return of ask and the next question.                                    *)
C8_Step ==
    /\ (pc = "MultiChoiceQuestion.ask") =>
          /\ reads' = reads + 1
          /\ IF KeyOf(user_answer') # {} \/ TextOf(user_answer') # {}
             THEN /\ pc' = "ask_returned"
                  /\ ret' \in {0, 1}
                  /\ output' \in {Append(output, Correct), Append(output, Incorrect)}
             ELSE /\ pc' = "MultiChoiceQuestion.ask"
                  /\ output' = output \o <<Reprompt, InputPrompt>>
                  /\ UNCHANGED <<ret, asked, score, returned, option_list>>
    /\ (pc = "ask_returned") => (reads' = reads /\ output' = output)

C8_Reprompt == [][C8_Step]_vars

\* two invalid lines, two re-prompts, then a valid line ended the call
C8_Witness ==
    /\ Returned("MultiChoiceQuestion")
    /\ Len(questions) = 1
    /\ attempts = 2
    /\ reads = 3
    /\ Cardinality({k \in 1..Len(output) : output[k] = Reprompt}) = 2
    /\ Selected(user_answer) # {}

(* C9: a line that is both a letter key of the assignment and, up to letter *)
(* case, the text of a presented option selects the option of the letter   *)
(* key, whose membership in the answers decides the score.                 *)
C9_LetterFirst ==
    ( /\ Returned("MultiChoiceQuestion")
      /\ KeyOf(user_answer) # {}
      /\ TextOf(user_answer) # {} )
    => \A k \in KeyOf(user_answer) :
          ret = (IF OptionAt(k) \in Range(CorrectAnswers) THEN 1 ELSE 0)

\* the line b is the text of a wrong option and the letter of a correct one
C9_Witness ==
    /\ Returned("MultiChoiceQuestion")
    /\ KeyOf(user_answer) = {2}
    /\ TextOf(user_answer) = {1}
    /\ OptionAt(1) \notin Range(CorrectAnswers)
    /\ OptionAt(2) \in Range(CorrectAnswers)
    /\ ret = 1

(* C10: the running score of run_quiz starts at 0, is the number of ask     *)
(* calls so far that returned 1, lies within 0..number of questions asked, *)
(* and is returned and printed unscaled by score_per_question.             *)
Ones(s) == Cardinality({k \in 1..Len(s) : s[k] = 1})

---------------------------------------------------------------------------
(* The asks of a run, read off the output *)

\* the places of the question texts: one is written at the start of each ask
TextPositions == {k \in 1..Len(output) : output[k].line = "question text"}

Begun == Cardinality(TextPositions)

\* the place of the question text of the n-th ask
NthText(n) ==
    CHOOSE k \in TextPositions : Cardinality({j \in TextPositions : j <= k}) = n

IsText(l) == l.line = "question text"

\* the question texts written so far, in order
Texts == SelectSeq(output, IsText)

\* the question text t is that of question q
ShowsQuestion(t, q) ==
    LET shown == Values(t.items)
        combined == q.answers \o q.wrong_answers
    IN  /\ Len(shown) = (IF q.kind = "Question" THEN 0 ELSE Len(combined))
        /\ q.kind = "MultiChoiceQuestion" =>
              \A x \in OptTexts : Count(shown, x) = Count(combined, x)

(* C11: run_quiz asks the questions strictly in list order: the n-th ask    *)
(* is that of the n-th question, an ask begins only when every earlier one *)
(* has returned, and at the end every question was asked exactly once.     *)
C11_InOrder ==
    /\ (pc \in {"run_quiz", "raised"}) => Begun = 0
    /\ (pc \in {"Question.ask", "MultiChoiceQuestion.ask"}) =>
          /\ Begun = i + 1
          /\ Len(asked) = i
          /\ (questions[i + 1].kind = "Question") <=> (pc = "Question.ask")
    /\ (pc = "ask_returned") => (Begun = i + 1 /\ Len(asked) = i)
    /\ (pc = "for") =>
          /\ Begun = Len(asked)
          /\ Begun = (IF i = NoValue THEN 0 ELSE i + 1)
    /\ (pc = "done") => (Begun = Len(questions) /\ Len(asked) = Len(questions))
    /\ Begun <= Len(questions)
    /\ \A n \in 1..Begun : ShowsQuestion(Texts[n], questions[n])

\* a multiple-choice question with two re-prompts, then a free-text question,
\* then the end of the run
C11_Witness ==
    /\ pc = "done"
    /\ Len(questions) = 2
    /\ questions[1].kind = "MultiChoiceQuestion"
    /\ questions[2].kind = "Question"
    /\ Cardinality({k \in 1..Len(output) : output[k] = Reprompt}) = 2
    /\ Begun = 2

(* C12: no step of a run changes a question: prompt, answers and            *)
(* wrong_answers keep their content and order through every ask, the       *)
(* shuffle acting on the combined list only.                               *)
C12_QuestionsKept == [][questions' = questions]_vars

\* the same multiple-choice question asked a second time, its options shown
\* in another order than the first time
C12_Witness ==
    /\ pc = "MultiChoiceQuestion.ask"
    /\ i = 1
    /\ questions[1] = questions[2]
    /\ questions[1] \in QuizPool
    /\ output[NthText(1)].items # output[NthText(2)].items
    /\ ShowsQuestion(Texts[2], questions[1])

(* C13: the output before the ask of the question at 0-based index n is,   *)
(* immediately before the question text, separator, "Question               *)
(* <n + first_question_num>", separator; these are the only headers; after *)
(* the last ask returned the output ends with separator, the final score   *)
(* line, separator, and there is no score line before that.                *)
LinesOf(l) == {k \in 1..Len(output) : output[k].line = l}

C13_OutputOrder ==
    /\ \A n \in 1..Begun :
          LET k == NthText(n) IN
          /\ k > 3
          /\ output[k - 3] = Separator
          /\ output[k - 2] = QuestionHeader((n - 1) + first_question_num)
          /\ output[k - 1] = Separator
          /\ n = 1 => k = 4
          /\ n > 1 => output[k - 4] \in {Correct, Incorrect}
    /\ Cardinality(LinesOf("Question")) = Begun
    /\ Cardinality(LinesOf(Separator.line)) =
          2 * Begun + (IF pc = "done" THEN 2 ELSE 0)
    /\ (pc # "done") => LinesOf("Your score") = {}
    /\ (pc = "done") =>
          /\ LinesOf("Your score") = {Len(output) - 1}
          /\ output[Len(output) - 3] \in {Correct, Incorrect}
          /\ output[Len(output) - 2] = Separator
          /\ output[Len(output) - 1] = ScoreLine(returned)
          /\ output[Len(output)] = Separator

\* a finished run of two questions numbered from 7: headers 7 and 8
C13_Witness ==
    /\ pc = "done"
    /\ first_question_num = 7
    /\ Len(questions) = 2
    /\ output[2] = QuestionHeader(7)
    /\ output[NthText(2) - 2] = QuestionHeader(8)
    /\ output[Len(output) - 1] = ScoreLine(1)

(* C14: every ask call that returns has printed exactly one feedback line,  *)
(* "Correct!" iff it returns 1 and "Incorrect!" iff it returns 0, and it   *)
(* returns 0 or 1.                                                         *)
FeedbackPositions == {k \in 1..Len(output) : output[k] \in {Correct, Incorrect}}

IsFeedback(l) == l \in {Correct, Incorrect}

IsTextOrFeedback(l) == IsText(l) \/ IsFeedback(l)

\* the feedback lines written so far, in order
Feedbacks == SelectSeq(output, IsFeedback)

\* the question texts and the feedback lines written so far, in order
Dialogue == SelectSeq(output, IsTextOrFeedback)

C14_Feedback ==
    /\ (pc = "ask_returned") =>
          /\ ret \in {0, 1}
          /\ (output[Len(output)] = Correct) <=> (ret = 1)
          /\ (output[Len(output)] = Incorrect) <=> (ret = 0)
          /\ Cardinality(FeedbackPositions) = Len(asked) + 1
    /\ (pc # "ask_returned") => Cardinality(FeedbackPositions) = Len(asked)
    /\ \A n \in 1..Len(asked) :
          /\ asked[n] \in {0, 1}
          /\ (Feedbacks[n] = Correct) <=> (asked[n] = 1)
          /\ (Feedbacks[n] = Incorrect) <=> (asked[n] = 0)
    /\ \A k \in 1..Len(Dialogue) : IsText(Dialogue[k]) <=> (k % 2 = 1)

\* a second ask, multiple-choice with one re-prompt, returned 0 after the
\* first returned 1
C14_Witness ==
    /\ Returned("MultiChoiceQuestion")
    /\ asked = <<1>>
    /\ ret = 0
    /\ attempts = 1
    /\ output[Len(output)] = Incorrect
    /\ Feedbacks[1] = Correct

(* C16: a MultiChoiceQuestion without any option shows no option and its   *)
(* ask never returns: whatever was typed, the output after its question    *)
(* text is input prompts and re-prompts only, and a run that holds such a  *)
(* question never prints or returns a final score.                         *)
ZeroOption(q) ==
    /\ q.kind = "MultiChoiceQuestion"
    /\ Len(q.answers) = 0
    /\ Len(q.wrong_answers) = 0

C16_NoOptions ==
    /\ (\E n \in 1..Len(questions) : ZeroOption(questions[n])) =>
          /\ pc # "done"
          /\ returned = NoValue
          /\ LinesOf("Your score") = {}
    /\ (i # NoValue /\ ZeroOption(questions[i + 1])) =>
          /\ pc = "MultiChoiceQuestion.ask"
          /\ option_list = <<>>
          /\ output[NthText(i + 1)].items = <<>>
          /\ Len(asked) = i
          /\ Cardinality(FeedbackPositions) = i
          /\ Len(output) = NthText(i + 1) + 1 + 2 * attempts
          /\ \A k \in 1..attempts :
                /\ output[NthText(i + 1) + 2 * k] = Reprompt
                /\ output[NthText(i + 1) + 2 * k + 1] = InputPrompt
          /\ attempts > 0 => KeyOf(user_answer) = {} /\ TextOf(user_answer) = {}

\* second in a quiz, the question without options has re-prompted twice
C16_Witness ==
    /\ i = 1
    /\ ZeroOption(questions[2])
    /\ asked = <<1>>
    /\ attempts = 2
    /\ output[Len(output) - 1] = Reprompt
    /\ pc = "MultiChoiceQuestion.ask"

(* C17: the code after the validation loop of MultiChoiceQuestion.ask is    *)
(* never run: the while condition is never evaluated with valid_input      *)
(* true, every return of ask is made in the turn of the loop that set      *)
(* valid_input, and "How is this method still running?" is never printed.  *)
C17_AfterLoopDead ==
    /\ (pc = "MultiChoiceQuestion.ask") => ~valid_input
    /\ LinesOf(StillRunning.line) = {}
    /\ Returned("MultiChoiceQuestion") =>
          /\ valid_input
          /\ output[Len(output)] \in {Correct, Incorrect}
          /\ Selected(user_answer) # {}

\* a call that returned in its third turn of the loop
C17_Witness ==
    /\ Returned("MultiChoiceQuestion")
    /\ valid_input
    /\ attempts = 2
    /\ ret = 1

(* C15: the ask of a MultiChoiceQuestion with at least one option returns   *)
(* once the input stream supplies a valid token, however many invalid      *)
(* lines come first; an invalid line never ends the call: it is            *)
(* re-prompted and the call stays at its input.                            *)
C15_InvalidStays ==
    ( /\ pc = "MultiChoiceQuestion.ask"
      /\ KeyOf(user_answer') = {}
      /\ TextOf(user_answer') = {} )
    => /\ pc' = "MultiChoiceQuestion.ask"
       /\ UNCHANGED <<ret, asked, score, returned, option_list>>
       /\ attempts < MaxRetries =>
             /\ output' = output \o <<Reprompt, InputPrompt>>
             /\ attempts' = attempts + 1

C15_Returns ==
    /\ [][C15_InvalidStays]_vars
    /\ [](( /\ pc = "MultiChoiceQuestion.ask"
            /\ Len(option_list) > 0 ) => <>(pc = "ask_returned"))

\* two options, two invalid lines re-prompted, then a valid line: returned
C15_Witness ==
    /\ Returned("MultiChoiceQuestion")
    /\ Len(option_list) = 2
    /\ attempts = 2
    /\ reads = 3
    /\ ret = 0

====
